---- MODULE Spec2Model ----
(***************************************************************************)
(* A model of the durable local queue of sqs-issue-notifier                *)
(* (package local_storage: fsStore, fsData, notifier, NewFS) and of the    *)
(* relay loop of the server (startStorage), at the granularity of the      *)
(* system calls and critical sections the Go code performs.                *)
(*                                                                         *)
(* File names are pairs <<second, hash>>; the advisory locks of go-flock   *)
(* are flock(2) locks on the inode a lock-file path names: a holder whose  *)
(* lock file was unlinked keeps its lock on the orphaned inode, and the    *)
(* next TryLock of the same path creates, and locks, a new inode.          *)
(***************************************************************************)
EXTENDS Integers, Sequences, FiniteSets, TLC

\* ------------------------------------------------------------------ bounds

MaxData == 2
MaxTime == 1
NumProducers == 2
NumClients == 2
MaxHandles == 2
MaxStores == 2

\* ------------------------------------------------------- names and contents

Data == 1..MaxData
Times == 0..MaxTime
Stores == {1, 2}
Producers == 1..NumProducers
Clients == 11..(10 + NumClients)
Relay(s) == 20 + s
Relays == {Relay(s) : s \in Stores}
Waiters == Clients \cup Relays
HandleIds == 1..MaxHandles

\* What a failed or interrupted write leaves in a file: bytes that are no
\* payload any Store call was given.
Garbage == 0
NoFile == -1
Contents == Data \cup {Garbage}

\* sha256.Sum256 followed by hex.EncodeToString: injective on the contents
\* of the model (no collisions), and never the content itself.
Sum256(c) == 7 * c + 3
HexEncode(x) == 100 + x
HashHex(c) == HexEncode(Sum256(c))
HashVals == {HashHex(d) : d \in Data}

\* A file name shorter than the time prefix (len(filename) < hash_offset).
ShortName == <<-1, 0>>
\* now.Format(time_format) + hash_hex
FileName(t, d) == <<t, HashHex(d)>>
Names == (Times \X HashVals) \cup {ShortName}
NoName == <<-2, 0>>
IsShort(n) == n[1] < 0
hash_str(n) == n[2]

\* filepath.WalkDir visits the entries of a directory in lexical order.
Before(a, b) == a[1] < b[1] \/ (a[1] = b[1] /\ a[2] < b[2])
First(S) == CHOOSE n \in S : \A m \in S \ {n} : Before(n, m)

\* ------------------------------------------------------------------- state

VARIABLES
    now,        \* the wall clock, in seconds
    files,      \* the payload directory: name -> content, or NoFile
    lockdir,    \* the names that have a lock file in .lock
    status,     \* per store instance: "none", "up" (constructed), "dead"
    queued,     \* notifier.queued
    run,        \* notifier.run
    forceWake,  \* notifier.forceWake
    timer,      \* notifier.timer: "none" (timeout 0), "stopped", "armed"
    tpc,        \* the timer goroutine's position
    waitq,      \* the goroutines blocked in cond.Wait, in ticket order
    clpc,       \* position of the caller of fsStore.Close
    prod,       \* the goroutines calling fsStore.Store
    nstore,     \* number of Store calls made so far
    pc,         \* position of each consumer goroutine (clients, relay loops)
    wst,        \* the store a consumer's call in progress is made on
    todo,       \* the directory entries a Get in progress has yet to visit
    res,        \* the last result each consumer's call returned
    handles,    \* the fsData objects: payload, lock, progress of Remove
    sendErr     \* per relay loop: whether its last Sink.Send failed

vars == <<now, files, lockdir, status, queued, run, forceWake, timer, tpc,
          waitq, clpc, prod, nstore, pc, wst, todo, res, handles, sendErr>>

fsVars == <<now, files, lockdir>>
notifVars == <<queued, run, forceWake, timer, tpc, waitq, clpc>>
consVars == <<pc, wst, todo, res, sendErr>>

\* seen: the payload file of the call's name, with the call's bytes, has
\* been in the directory ever since the call began.
IdleProd == [pc |-> "idle", name |-> NoName, data |-> Garbage, store |-> 0,
             linked |-> FALSE, res |-> "none", seen |-> FALSE]
FreeHandle == [st |-> "free", name |-> NoName, data |-> Garbage, store |-> 0,
               owner |-> 0, linked |-> FALSE]

\* A call of Store about to hand result r back to its caller.
Ret(r, n, d, sn) ==
    [IdleProd EXCEPT !.pc = "ret", !.res = r, !.name = n, !.data = d,
                     !.seen = sn]

Present == {n \in Names : files[n] # NoFile}

\* ------------------------------------------------------------------- locks

\* The goroutines of Store that hold their flock.
ProdHolds(p) == prod[p].pc \in {"stat", "write", "count", "signal", "unlock"}
\* The fsData objects that hold their flock: from Get until Close, or until
\* the Unlock inside Remove.
HandleHolds(h) == handles[h].st \in {"open", "rm_unlock"}

\* flock(LOCK_EX|LOCK_NB) on the inode the lock path of n names now would
\* return EWOULDBLOCK: some open file description of that inode holds it.
LinkedHeld(n) ==
    \/ \E p \in Producers : ProdHolds(p) /\ prod[p].name = n /\ prod[p].linked
    \/ \E h \in HandleIds :
           HandleHolds(h) /\ handles[h].name = n /\ handles[h].linked

\* The lock path of every name in S is unlinked: the holders keep their
\* locks, on inodes no path names any more.
OrphanProd(S) ==
    [p \in Producers |->
        IF ProdHolds(p) /\ prod[p].name \in S
        THEN [prod[p] EXCEPT !.linked = FALSE]
        ELSE prod[p]]
OrphanHandles(S) ==
    [h \in HandleIds |->
        IF HandleHolds(h) /\ handles[h].name \in S THEN [handles[h] EXCEPT !.linked = FALSE]
        ELSE handles[h]]

\* ------------------------------------------------------------ the notifier

\* sync.Cond.Signal: wakes the goroutine that waits longest, if any.
SignalPc(s) ==
    IF waitq[s] = <<>> THEN pc ELSE [pc EXCEPT ![Head(waitq[s])] = "woken"]
SignalQ(s) ==
    IF waitq[s] = <<>> THEN waitq ELSE [waitq EXCEPT ![s] = Tail(@)]

\* ------------------------------------------------------------ fsStore.Store

\* Line 251: time.Now() moves on between calls.
Tick ==
    /\ now < MaxTime
    /\ now' = now + 1
    /\ UNCHANGED <<files, lockdir, status, notifVars, prod, nstore, consVars,
                   handles>>

\* Lines 249-266, TryLock fails with an error: ErrStoreLockFailed.
StoreLockErr(p, s, d) ==
    /\ prod[p].pc = "idle"
    /\ status[s] = "up"
    /\ nstore < MaxStores
    /\ nstore' = nstore + 1
    /\ prod' = [prod EXCEPT ![p] =
           Ret("StoreLockFailed", FileName(now, d), d,
               files[FileName(now, d)] = d)]
    /\ UNCHANGED <<fsVars, status, notifVars, consVars, handles>>

\* Lines 249-270: the name is built from the clock and the hash of the data,
\* and its lock is tried once: held elsewhere is ErrDuplicatedStore.
StoreLock(p, s, d) ==
    /\ prod[p].pc = "idle"
    /\ status[s] = "up"
    /\ nstore < MaxStores
    /\ nstore' = nstore + 1
    /\ LET filename == FileName(now, d) IN
        /\ lockdir' = lockdir \cup {filename}
        /\ IF LinkedHeld(filename)
           THEN prod' = [prod EXCEPT
                    ![p] = Ret("DuplicateStore", filename, d,
                               files[filename] = d)]
           ELSE prod' = [prod EXCEPT
                    ![p] = [pc |-> "stat", name |-> filename, data |-> d,
                            store |-> s, linked |-> TRUE, res |-> "none",
                            seen |-> files[filename] = d]]
    /\ UNCHANGED <<now, files, status, notifVars, consVars, handles>>

\* StoreStat without the check of lines 277-279.
StoreStatUnchecked(p) ==
    /\ prod[p].pc = "stat"
    /\ prod' = [prod EXCEPT ![p].pc = "write"]
    /\ UNCHANGED <<fsVars, status, notifVars, nstore, consVars, handles>>

\* Lines 272-279: a data file of that name exists: ErrDuplicatedStore, and
\* the deferred Unlock runs.
StoreStat(p) ==
    /\ prod[p].pc = "stat"
    /\ IF files[prod[p].name] # NoFile
       THEN prod' = [prod EXCEPT
                ![p] = Ret("DuplicateStore", prod[p].name, prod[p].data,
                           prod[p].seen)]
       ELSE prod' = [prod EXCEPT ![p].pc = "write"]
    /\ UNCHANGED <<fsVars, status, notifVars, nstore, consVars, handles>>

\* Line 281: os.WriteFile creates the file with the payload.
StoreWrite(p) ==
    /\ prod[p].pc = "write"
    /\ files' = [files EXCEPT ![prod[p].name] = prod[p].data]
    /\ prod' = [prod EXCEPT ![p].pc = "count"]
    /\ UNCHANGED <<now, lockdir, status, notifVars, nstore, consVars, handles>>

\* Store going on to count the item although os.WriteFile failed.
StoreWriteFailCounts(p) ==
    /\ prod[p].pc = "write"
    /\ \E left \in {files[prod[p].name], Garbage} :
           files' = [files EXCEPT ![prod[p].name] = left]
    /\ prod' = [prod EXCEPT ![p].pc = "count"]
    /\ UNCHANGED <<now, lockdir, status, notifVars, nstore, consVars, handles>>

\* Lines 281-285: os.WriteFile fails, before it created the file or after
\* (the file is left with part of the payload): ErrStoreFailed.
StoreWriteFail(p) ==
    /\ prod[p].pc = "write"
    /\ \E left \in {files[prod[p].name], Garbage} :
           files' = [files EXCEPT ![prod[p].name] = left]
    /\ prod' = [prod EXCEPT ![p] =
           Ret("StoreFailed", prod[p].name, prod[p].data, prod[p].seen)]
    /\ UNCHANGED <<now, lockdir, status, notifVars, nstore, consVars, handles>>

\* Lines 287-289: the count goes up by one under the mutex.
StoreCount(p) ==
    /\ prod[p].pc = "count"
    /\ queued' = [queued EXCEPT ![prod[p].store] = @ + 1]
    /\ prod' = [prod EXCEPT ![p].pc = "signal"]
    /\ UNCHANGED <<fsVars, status, run, forceWake, timer, tpc, waitq, clpc,
                   nstore, consVars, handles>>

\* Store returning without the Signal.
StoreSignalLost(p) ==
    /\ prod[p].pc = "signal"
    /\ prod' = [prod EXCEPT ![p].pc = "unlock"]
    /\ UNCHANGED <<fsVars, status, notifVars, nstore, consVars, handles>>

\* Line 290: one waiter is signalled.
StoreSignal(p) ==
    /\ prod[p].pc = "signal"
    /\ pc' = SignalPc(prod[p].store)
    /\ waitq' = SignalQ(prod[p].store)
    /\ prod' = [prod EXCEPT ![p].pc = "unlock"]
    /\ UNCHANGED <<fsVars, status, queued, run, forceWake, timer, tpc, clpc,
                   nstore, wst, todo, res, sendErr, handles>>

\* Lines 270, 291: return nil runs the deferred Unlock.
StoreUnlock(p) ==
    /\ prod[p].pc = "unlock"
    /\ prod' = [prod EXCEPT ![p] =
           Ret("Ok", prod[p].name, prod[p].data, prod[p].seen)]
    /\ UNCHANGED <<fsVars, status, notifVars, nstore, consVars, handles>>

\* The caller of Store has its result and is free to call again.
StoreReturn(p) ==
    /\ prod[p].pc = "ret"
    /\ prod' = [prod EXCEPT ![p] = IdleProd]
    /\ UNCHANGED <<fsVars, status, notifVars, nstore, consVars, handles>>

\* ------------------------------------------------------------- fsStore.Wait

\* The result r of a call made by consumer t: a client holds it until it
\* calls again, the relay loop branches on it at once.
Result(t, r) == IF t \in Clients THEN [res EXCEPT ![t] = r] ELSE res

\* The loop condition of Wait with the test of forceWake the wrong way round.
WaitBlocksOnWake(s) == queued[s] = 0 /\ run[s] /\ forceWake[s]

\* Line 374: the loop condition of Wait.
WaitBlocks(s) == queued[s] = 0 /\ run[s] /\ ~forceWake[s]

\* WaitResult without the test of run of line 382.
WaitResultIgnoresRun(s) == IF forceWake[s] THEN "TimedOut" ELSE "Ok"

\* Lines 378-384: the result of Wait once its loop is left; nil is "Ok".
WaitResult(s) ==
    IF forceWake[s] THEN "TimedOut"
    ELSE IF ~run[s] THEN "StoreClosed"
    ELSE "Ok"

\* The relay loop starting over on ErrTimedOut as on any other error.
AfterWaitSkipsGet(t, r) ==
    IF t \in Relays
    THEN (IF r = "StoreClosed" THEN "done"
          ELSE IF r = "TimedOut" THEN "wait" ELSE "get")
    ELSE "ret"

\* The relay loop treating ErrStoreClosed as any other error of Wait.
AfterWaitGoesOn(t, r) ==
    IF t \in Relays THEN (IF r = "StoreClosed" THEN "wait" ELSE "get")
    ELSE "ret"

\* main.go lines 21-27: the relay loop ends on ErrStoreClosed and goes on to
\* Get after nil and after ErrTimedOut; a client goroutine is free again.
AfterWait(t, r) ==
    IF t \in Relays THEN (IF r = "StoreClosed" THEN "done" ELSE "get")
    ELSE "ret"

\* Lines 373-387, with the mutex held: the goroutine joins the waiters, or
\* leaves with a result and clears forceWake when it reports it.
WaitCheck(t, s) ==
    IF WaitBlocks(s)
    THEN /\ pc' = [pc EXCEPT ![t] = "waiting"]
         /\ waitq' = [waitq EXCEPT ![s] = Append(@, t)]
         /\ UNCHANGED <<res, forceWake>>
    ELSE /\ pc' = [pc EXCEPT ![t] = AfterWait(t, WaitResult(s))]
         /\ res' = Result(t, WaitResult(s))
         /\ forceWake' = [forceWake EXCEPT ![s] = FALSE]
         /\ UNCHANGED waitq

\* A call of Wait on store s.
WaitCall(t, s) ==
    /\ status[s] = "up"
    /\ IF t \in Relays THEN pc[t] = "wait" /\ t = Relay(s) ELSE pc[t] = "idle"
    /\ wst' = [wst EXCEPT ![t] = s]
    /\ WaitCheck(t, s)
    /\ UNCHANGED <<fsVars, status, queued, run, timer, tpc, clpc, prod, nstore,
                   todo, handles, sendErr>>

\* Line 375: cond.Wait returns after a Signal and the loop condition is
\* evaluated again.
WaitWoken(t) ==
    /\ pc[t] = "woken"
    /\ WaitCheck(t, wst[t])
    /\ UNCHANGED <<fsVars, status, queued, run, timer, tpc, clpc, prod, nstore,
                   wst, todo, handles, sendErr>>

\* A client goroutine has the result of its call and is free to call again.
ClientReturn(t) ==
    /\ pc[t] = "ret"
    /\ pc' = [pc EXCEPT ![t] = "idle"]
    /\ res' = Result(t, "none")
    /\ UNCHANGED <<fsVars, status, notifVars, prod, nstore, wst, todo, handles,
                   sendErr>>

\* ------------------------------------------------------------ fsStore.Close

\* Lines 391-396: run is cleared and the timer stopped, under the mutex.
CloseCrit(s) ==
    /\ status[s] = "up"
    /\ clpc[s] = "idle"
    /\ run' = [run EXCEPT ![s] = FALSE]
    /\ timer' = [timer EXCEPT ![s] = IF @ = "none" THEN "none" ELSE "stopped"]
    /\ clpc' = [clpc EXCEPT ![s] = "signal"]
    /\ UNCHANGED <<fsVars, status, queued, forceWake, tpc, waitq, prod, nstore,
                   consVars, handles>>

\* Line 397: cond.Signal.
CloseSignal(s) ==
    /\ clpc[s] = "signal"
    /\ pc' = SignalPc(s)
    /\ waitq' = SignalQ(s)
    /\ clpc' = [clpc EXCEPT ![s] = "done"]
    /\ UNCHANGED <<fsVars, status, queued, run, forceWake, timer, tpc, prod,
                   nstore, wst, todo, res, sendErr, handles>>

\* ------------------------------------------------------ the timer goroutine

\* Line 499: for n.run.
TimerCheck(s) ==
    /\ tpc[s] = "check"
    /\ tpc' = [tpc EXCEPT ![s] = IF run[s] THEN "reset" ELSE "exit"]
    /\ UNCHANGED <<fsVars, status, queued, run, forceWake, timer, waitq, clpc,
                   prod, nstore, consVars, handles>>

\* Line 500: n.timer.Reset(timeout) arms the timer, stopped or not.
TimerReset(s) ==
    /\ tpc[s] = "reset"
    /\ timer' = [timer EXCEPT ![s] = "armed"]
    /\ tpc' = [tpc EXCEPT ![s] = "recv"]
    /\ UNCHANGED <<fsVars, status, queued, run, forceWake, waitq, clpc, prod,
                   nstore, consVars, handles>>

\* Line 501: the armed timer expires and the goroutine receives from its
\* channel; a stopped timer never sends.
TimerFire(s) ==
    /\ tpc[s] = "recv"
    /\ timer[s] = "armed"
    /\ timer' = [timer EXCEPT ![s] = "stopped"]
    /\ tpc' = [tpc EXCEPT ![s] = "crit"]
    /\ UNCHANGED <<fsVars, status, queued, run, forceWake, waitq, clpc, prod,
                   nstore, consVars, handles>>

\* The timer goroutine never setting forceWake.
TimerCritNoWake(s) ==
    /\ tpc[s] = "crit"
    /\ tpc' = [tpc EXCEPT ![s] = "signal"]
    /\ UNCHANGED <<fsVars, status, queued, run, forceWake, timer, waitq, clpc,
                   prod, nstore, consVars, handles>>

\* Lines 503-507: forceWake is set when nothing is queued.
TimerCrit(s) ==
    /\ tpc[s] = "crit"
    /\ forceWake' = [forceWake EXCEPT ![s] = IF queued[s] = 0 THEN TRUE ELSE @]
    /\ tpc' = [tpc EXCEPT ![s] = "signal"]
    /\ UNCHANGED <<fsVars, status, queued, run, timer, waitq, clpc, prod,
                   nstore, consVars, handles>>

\* Line 508: cond.Signal.
TimerSignal(s) ==
    /\ tpc[s] = "signal"
    /\ pc' = SignalPc(s)
    /\ waitq' = SignalQ(s)
    /\ tpc' = [tpc EXCEPT ![s] = "check"]
    /\ UNCHANGED <<fsVars, status, queued, run, forceWake, timer, clpc, prod,
                   nstore, wst, todo, res, sendErr, handles>>

\* -------------------------------------------------------------- fsStore.Get

FreeSlots == {h \in HandleIds : handles[h].st = "free"}
NewSlot == CHOOSE h \in FreeSlots : \A g \in FreeSlots : h <= g

\* main.go lines 29-37: after Get the relay loop sends what it got, or
\* starts over on any error; a client goroutine is free again.
AfterGet(t, r) ==
    IF t \in Relays THEN (IF r = "Handle" THEN "send" ELSE "wait")
    ELSE "ret"

\* Lines 324-348: the file can be read, its name is long enough and the
\* hash of its bytes is the hash part of its name.
Intact(n) ==
    /\ ~IsShort(n)
    /\ files[n] # NoFile
    /\ HashHex(files[n]) = hash_str(n)

\* Line 361: WalkDir reads the names in the directory.
GetList(t, s) ==
    /\ status[s] = "up"
    /\ IF t \in Relays THEN pc[t] = "get" /\ t = Relay(s) ELSE pc[t] = "idle"
    /\ wst' = [wst EXCEPT ![t] = s]
    /\ todo' = [todo EXCEPT ![t] = Present]
    /\ pc' = [pc EXCEPT ![t] = "scan"]
    /\ UNCHANGED <<fsVars, status, notifVars, prod, nstore, res, sendErr,
                   handles>>

\* Lines 361-364: the directory cannot be read: ErrGetFailed.
GetListErr(t, s) ==
    /\ status[s] = "up"
    /\ IF t \in Relays THEN pc[t] = "get" /\ t = Relay(s) ELSE pc[t] = "idle"
    /\ wst' = [wst EXCEPT ![t] = s]
    /\ res' = Result(t, "GetFailed")
    /\ pc' = [pc EXCEPT ![t] = AfterGet(t, "GetFailed")]
    /\ UNCHANGED <<fsVars, status, notifVars, prod, nstore, todo, sendErr,
                   handles>>

\* Lines 309-311 and 361-364: TryLock fails with an error; the walk function
\* returns ErrGetLockFailed, WalkDir hands it back, and Get returns
\* ErrGetFailed.
GetLockErr(t) ==
    /\ pc[t] = "scan"
    /\ todo[t] # {}
    /\ todo' = [todo EXCEPT ![t] = {}]
    /\ res' = Result(t, "GetFailed")
    /\ pc' = [pc EXCEPT ![t] = AfterGet(t, "GetFailed")]
    /\ UNCHANGED <<fsVars, status, notifVars, prod, nstore, wst, sendErr,
                   handles>>

\* GetVisit without the deferred Unlock of lines 318-322: the lock taken
\* on a file that is then passed over stays held, by a flock no fsData was
\* returned for.
GetVisitKeepsLock(t) ==
    /\ pc[t] = "scan"
    /\ todo[t] # {}
    /\ LET n == First(todo[t]) IN
        /\ lockdir' = lockdir \cup {n}
        /\ IF ~LinkedHeld(n)
           THEN /\ FreeSlots # {}
                /\ handles' = [handles EXCEPT ![NewSlot] =
                       [st |-> "open", name |-> n, data |-> files[n],
                        store |-> wst[t],
                        owner |-> IF t \in Relays THEN t ELSE 0,
                        linked |-> TRUE]]
                /\ IF Intact(n)
                   THEN /\ todo' = [todo EXCEPT ![t] = {}]
                        /\ res' = Result(t, "Handle")
                        /\ pc' = [pc EXCEPT ![t] = AfterGet(t, "Handle")]
                   ELSE /\ todo' = [todo EXCEPT ![t] = @ \ {n}]
                        /\ UNCHANGED <<res, pc>>
           ELSE /\ todo' = [todo EXCEPT ![t] = @ \ {n}]
                /\ UNCHANGED <<handles, res, pc>>
    /\ UNCHANGED <<now, files, status, notifVars, prod, nstore, wst, sendErr>>

\* GetVisit ending the walk at a file that is locked elsewhere, where
\* lines 312-315 go on to the next entry.
GetVisitStopsAtLocked(t) ==
    /\ pc[t] = "scan"
    /\ todo[t] # {}
    /\ LET n == First(todo[t]) IN
        /\ lockdir' = lockdir \cup {n}
        /\ IF ~LinkedHeld(n) /\ Intact(n)
           THEN /\ FreeSlots # {}
                /\ handles' = [handles EXCEPT ![NewSlot] =
                       [st |-> "open", name |-> n, data |-> files[n],
                        store |-> wst[t],
                        owner |-> IF t \in Relays THEN t ELSE 0,
                        linked |-> TRUE]]
                /\ todo' = [todo EXCEPT ![t] = {}]
                /\ res' = Result(t, "Handle")
                /\ pc' = [pc EXCEPT ![t] = AfterGet(t, "Handle")]
           ELSE /\ todo' = [todo EXCEPT ![t] =
                               IF LinkedHeld(n) THEN {} ELSE @ \ {n}]
                /\ UNCHANGED <<handles, res, pc>>
    /\ UNCHANGED <<now, files, status, notifVars, prod, nstore, wst, sendErr>>

\* GetVisit without the comparison of lines 343-350: any file that can be
\* read is returned.
GetVisitNoHash(t) ==
    /\ pc[t] = "scan"
    /\ todo[t] # {}
    /\ LET n == First(todo[t]) IN
        /\ lockdir' = lockdir \cup {n}
        /\ IF ~LinkedHeld(n) /\ ~IsShort(n) /\ files[n] # NoFile
           THEN /\ FreeSlots # {}
                /\ handles' = [handles EXCEPT ![NewSlot] =
                       [st |-> "open", name |-> n, data |-> files[n],
                        store |-> wst[t],
                        owner |-> IF t \in Relays THEN t ELSE 0,
                        linked |-> TRUE]]
                /\ todo' = [todo EXCEPT ![t] = {}]
                /\ res' = Result(t, "Handle")
                /\ pc' = [pc EXCEPT ![t] = AfterGet(t, "Handle")]
           ELSE /\ todo' = [todo EXCEPT ![t] = @ \ {n}]
                /\ UNCHANGED <<handles, res, pc>>
    /\ UNCHANGED <<now, files, status, notifVars, prod, nstore, wst, sendErr>>

\* Lines 299-359, the walk function on the next entry: a file locked
\* elsewhere, too short a name, unreadable or corrupted is passed over (and
\* its lock released); the first intact file ends the walk, its lock kept by
\* the fsData returned.
GetVisit(t) ==
    /\ pc[t] = "scan"
    /\ todo[t] # {}
    /\ LET n == First(todo[t]) IN
        /\ lockdir' = lockdir \cup {n}
        /\ IF ~LinkedHeld(n) /\ Intact(n)
           THEN /\ FreeSlots # {}
                /\ handles' = [handles EXCEPT ![NewSlot] =
                       [st |-> "open", name |-> n, data |-> files[n],
                        store |-> wst[t],
                        owner |-> IF t \in Relays THEN t ELSE 0,
                        linked |-> TRUE]]
                /\ todo' = [todo EXCEPT ![t] = {}]
                /\ res' = Result(t, "Handle")
                /\ pc' = [pc EXCEPT ![t] = AfterGet(t, "Handle")]
           ELSE /\ todo' = [todo EXCEPT ![t] = @ \ {n}]
                /\ UNCHANGED <<handles, res, pc>>
    /\ UNCHANGED <<now, files, status, notifVars, prod, nstore, wst, sendErr>>

\* Lines 365-367: the walk ended without a file: ErrGetEmpty.
GetEmpty(t) ==
    /\ pc[t] = "scan"
    /\ todo[t] = {}
    /\ res' = Result(t, "GetEmpty")
    /\ pc' = [pc EXCEPT ![t] = AfterGet(t, "GetEmpty")]
    /\ UNCHANGED <<fsVars, status, notifVars, prod, nstore, wst, todo, sendErr,
                   handles>>

\* ------------------------------------------------------------------ fsData

\* Who may call a method of fsData h: any goroutine for an fsData a client
\* got, the relay loop at the matching statement for its own.
MayClose(h) ==
    /\ handles[h].st = "open"
    /\ handles[h].owner # 0 => pc[handles[h].owner] = "close"
MayRemove(h) ==
    /\ handles[h].st = "open"
    /\ handles[h].owner # 0 => pc[handles[h].owner] = "remove"

\* The relay loop's position once the call on its fsData has returned.
Returned(h, to) ==
    IF handles[h].owner # 0 THEN [pc EXCEPT ![handles[h].owner] = to] ELSE pc

\* Close deleting the payload as Remove does.
HCloseDeletes(h) ==
    /\ MayClose(h)
    /\ handles' = [handles EXCEPT ![h] = FreeHandle]
    /\ files' = [files EXCEPT ![handles[h].name] = NoFile]
    /\ pc' = Returned(h, "wait")
    /\ UNCHANGED <<now, lockdir, status, notifVars, prod, nstore, wst, todo,
                   res, sendErr>>

\* Close lowering the count as Remove does.
HCloseCounts(h) ==
    /\ MayClose(h)
    /\ handles' = [handles EXCEPT ![h] = FreeHandle]
    /\ queued' = [queued EXCEPT ![handles[h].store] = IF @ > 0 THEN @ - 1 ELSE @]
    /\ pc' = Returned(h, "wait")
    /\ UNCHANGED <<fsVars, status, run, forceWake, timer, tpc, waitq, clpc,
                   prod, nstore, wst, todo, res, sendErr>>

\* Lines 447-450: Close releases the lock and nothing else.
HClose(h) ==
    /\ MayClose(h)
    /\ handles' = [handles EXCEPT ![h] = FreeHandle]
    /\ pc' = Returned(h, "wait")
    /\ UNCHANGED <<fsVars, status, notifVars, prod, nstore, wst, todo, res,
                   sendErr>>

\* Remove releasing the lock before it deletes the payload file.
HRemoveFileReleases(h) ==
    /\ MayRemove(h)
    /\ files[handles[h].name] # NoFile
    /\ files' = [files EXCEPT ![handles[h].name] = NoFile]
    /\ handles' = [handles EXCEPT ![h].st = "rm_unlink", ![h].linked = FALSE]
    /\ prod' = [p \in Producers |->
                   IF prod[p].pc # "ret" /\ prod[p].name = handles[h].name
                   THEN [prod[p] EXCEPT !.seen = FALSE] ELSE prod[p]]
    /\ UNCHANGED <<now, lockdir, status, notifVars, nstore, consVars>>

\* Line 424: os.Remove deletes the payload file.
HRemoveFile(h) ==
    /\ MayRemove(h)
    /\ files[handles[h].name] # NoFile
    /\ files' = [files EXCEPT ![handles[h].name] = NoFile]
    /\ handles' = [handles EXCEPT ![h].st = "rm_unlock"]
    /\ prod' = [p \in Producers |->
                   IF prod[p].pc # "ret" /\ prod[p].name = handles[h].name
                   THEN [prod[p] EXCEPT !.seen = FALSE] ELSE prod[p]]
    /\ UNCHANGED <<now, lockdir, status, notifVars, nstore, consVars>>

\* The relay loop starting over after a failed Remove without calling Close.
HRemoveFailNoClose(h) ==
    /\ MayRemove(h)
    /\ handles[h].owner # 0
    /\ pc' = Returned(h, "wait")
    /\ UNCHANGED <<fsVars, status, notifVars, prod, nstore, wst, todo, res,
                   sendErr, handles>>

\* Lines 424-428: os.Remove fails (always when the file is gone):
\* ErrRemoveFailed, and the lock stays held. main.go lines 47-51: the relay
\* loop then calls Close.
HRemoveFail(h) ==
    /\ MayRemove(h)
    /\ handles[h].owner # 0
    /\ pc' = Returned(h, "close")
    /\ UNCHANGED <<fsVars, status, notifVars, prod, nstore, wst, todo, res,
                   sendErr, handles>>

\* Line 430: the lock is released.
HRemoveUnlock(h) ==
    /\ handles[h].st = "rm_unlock"
    /\ handles' = [handles EXCEPT ![h].st = "rm_unlink", ![h].linked = FALSE]
    /\ UNCHANGED <<fsVars, status, notifVars, prod, nstore, consVars>>

\* Lines 431-436: the lock file is unlinked, whoever holds a lock on it.
HRemoveUnlink(h) ==
    /\ handles[h].st = "rm_unlink"
    /\ lockdir' = lockdir \ {handles[h].name}
    /\ prod' = OrphanProd({handles[h].name})
    /\ handles' = [OrphanHandles({handles[h].name}) EXCEPT ![h].st = "rm_count"]
    /\ UNCHANGED <<now, files, status, notifVars, nstore, consVars>>

\* Remove lowering the count without the test of line 439.
HRemoveCountNoFloor(h) ==
    /\ handles[h].st = "rm_count"
    /\ queued' = [queued EXCEPT ![handles[h].store] = @ - 1]
    /\ handles' = [handles EXCEPT ![h] = FreeHandle]
    /\ pc' = Returned(h, "wait")
    /\ UNCHANGED <<fsVars, status, run, forceWake, timer, tpc, waitq, clpc,
                   prod, nstore, wst, todo, res, sendErr>>

\* Remove returning without touching the count.
HRemoveNoCount(h) ==
    /\ handles[h].st = "rm_count"
    /\ handles' = [handles EXCEPT ![h] = FreeHandle]
    /\ pc' = Returned(h, "wait")
    /\ UNCHANGED <<fsVars, status, notifVars, prod, nstore, wst, todo, res,
                   sendErr>>

\* Lines 438-444: the count of the store the fsData came from goes down by
\* one, unless it is zero, and Remove returns nil.
HRemoveCount(h) ==
    /\ handles[h].st = "rm_count"
    /\ queued' = [queued EXCEPT ![handles[h].store] = IF @ > 0 THEN @ - 1 ELSE @]
    /\ handles' = [handles EXCEPT ![h] = FreeHandle]
    /\ pc' = Returned(h, "wait")
    /\ UNCHANGED <<fsVars, status, run, forceWake, timer, tpc, waitq, clpc,
                   prod, nstore, wst, todo, res, sendErr>>

\* ----------------------------------------------------------- the relay loop

RelayHandle(r) == CHOOSE h \in HandleIds : handles[h].owner = r

\* The relay loop calling Close after a Send that succeeded.
SendOkCloses(r) ==
    /\ pc[r] = "send"
    /\ sendErr' = [sendErr EXCEPT ![r] = FALSE]
    /\ pc' = [pc EXCEPT ![r] = "close"]
    /\ UNCHANGED <<fsVars, status, notifVars, prod, nstore, wst, todo, res,
                   handles>>

\* main.go lines 37-46: Sink.Send succeeds and the loop goes on to Remove.
SendOk(r) ==
    /\ pc[r] = "send"
    /\ sendErr' = [sendErr EXCEPT ![r] = FALSE]
    /\ pc' = [pc EXCEPT ![r] = "remove"]
    /\ UNCHANGED <<fsVars, status, notifVars, prod, nstore, wst, todo, res,
                   handles>>

\* SendFail going on to Remove as if Send had succeeded.
SendFailRemoves(r) ==
    /\ pc[r] = "send"
    /\ sendErr' = [sendErr EXCEPT ![r] = TRUE]
    /\ pc' = [pc EXCEPT ![r] = "remove"]
    /\ UNCHANGED <<fsVars, status, notifVars, prod, nstore, wst, todo, res,
                   handles>>

\* main.go lines 37-44: Sink.Send fails and the loop goes on to Close.
SendFail(r) ==
    /\ pc[r] = "send"
    /\ sendErr' = [sendErr EXCEPT ![r] = TRUE]
    /\ pc' = [pc EXCEPT ![r] = "close"]
    /\ UNCHANGED <<fsVars, status, notifVars, prod, nstore, wst, todo, res,
                   handles>>

\* -------------------------------------------------------------------- NewFS

\* Lines 455-513: the lock directory is emptied (the locks held on its files
\* stay held, on inodes without a name), the files of the directory are
\* counted into queued, and the timer goroutine is started when the timeout
\* is not zero. main.go lines 16-53: startStorage also starts a relay loop.
Constructed(s, n, timeout, relay) ==
    /\ status' = [status EXCEPT ![s] = "up"]
    /\ queued' = [queued EXCEPT ![s] = n]
    /\ run' = [run EXCEPT ![s] = TRUE]
    /\ forceWake' = [forceWake EXCEPT ![s] = FALSE]
    /\ timer' = [timer EXCEPT ![s] = IF timeout THEN "armed" ELSE "none"]
    /\ tpc' = [tpc EXCEPT ![s] = IF timeout THEN "check" ELSE "none"]
    /\ pc' = [pc EXCEPT ![Relay(s)] = IF relay THEN "wait" ELSE "off"]

\* NewFS without the RemoveAll of lines 465-469: the lock files stay.
NewFSKeepsLocks(s, timeout, relay) ==
    /\ status[s] = "none"
    /\ Constructed(s, Cardinality(Present), timeout, relay)
    /\ UNCHANGED <<now, files, lockdir, prod, handles, waitq, clpc, nstore,
                   wst, todo, res, sendErr>>

\* NewFS leaving the count at zero whatever the directory holds.
NewFSNoCount(s, timeout, relay) ==
    /\ status[s] = "none"
    /\ lockdir' = {}
    /\ prod' = OrphanProd(Names)
    /\ handles' = OrphanHandles(Names)
    /\ Constructed(s, 0, timeout, relay)
    /\ UNCHANGED <<now, files, waitq, clpc, nstore, wst, todo, res, sendErr>>

NewFS(s, timeout, relay) ==
    /\ status[s] = "none"
    /\ lockdir' = {}
    /\ prod' = OrphanProd(Names)
    /\ handles' = OrphanHandles(Names)
    /\ Constructed(s, Cardinality(Present), timeout, relay)
    /\ UNCHANGED <<now, files, waitq, clpc, nstore, wst, todo, res, sendErr>>

\* The process that owns store s dies: its goroutines stop where they are,
\* and the kernel releases the locks its open files held.
Crash(s) ==
    /\ status[s] = "up"
    /\ status' = [status EXCEPT ![s] = "dead"]
    /\ prod' = [p \in Producers |->
                   IF prod[p].store = s THEN IdleProd ELSE prod[p]]
    /\ handles' = [h \in HandleIds |->
                      IF handles[h].store = s THEN FreeHandle ELSE handles[h]]
    /\ pc' = [t \in Waiters |->
                 IF t = Relay(s) THEN "off"
                 ELSE IF pc[t] # "idle" /\ wst[t] = s THEN "idle"
                 ELSE pc[t]]
    /\ res' = [t \in Waiters |->
                  IF pc[t] # "idle" /\ wst[t] = s THEN "none" ELSE res[t]]
    /\ todo' = [t \in Waiters |->
                   IF t = Relay(s) \/ wst[t] = s THEN {} ELSE todo[t]]
    /\ waitq' = [waitq EXCEPT ![s] = <<>>]
    /\ tpc' = [tpc EXCEPT ![s] = IF @ = "none" THEN "none" ELSE "exit"]
    /\ timer' = [timer EXCEPT ![s] = IF @ = "none" THEN "none" ELSE "stopped"]
    /\ clpc' = [clpc EXCEPT ![s] = "done"]
    /\ UNCHANGED <<fsVars, queued, run, forceWake, nstore, wst, sendErr>>

\* ------------------------------------------------------------ initial state

\* The directories a store may be constructed over: nothing, or files a
\* previous run left, intact or not.
EmptyDir == [n \in Names |-> NoFile]
OldNames == {n \in Names : n[1] <= 0}
LeftOver(n) == IF IsShort(n) THEN {NoFile, Garbage}
               ELSE {NoFile, Garbage} \cup {d \in Data : HashHex(d) = hash_str(n)}
AnyDir == {f \in [Names -> Contents \cup {NoFile}] :
              \A n \in Names : IF n \in OldNames THEN f[n] \in LeftOver(n)
                               ELSE f[n] = NoFile}

\* The state after NewFS(dir, timeout) returned store 1 over directory dir.
InitWith(dirs, timeouts, relay) ==
    /\ now = 0
    /\ files \in dirs
    /\ lockdir = {}
    /\ status = [s \in Stores |-> IF s = 1 THEN "up" ELSE "none"]
    /\ queued = [s \in Stores |->
                    IF s = 1 THEN Cardinality({n \in Names : files[n] # NoFile})
                    ELSE 0]
    /\ run = [s \in Stores |-> s = 1]
    /\ forceWake = [s \in Stores |-> FALSE]
    /\ \E t \in timeouts :
        /\ timer = [s \in Stores |-> IF s = 1 /\ t THEN "armed" ELSE "none"]
        /\ tpc = [s \in Stores |-> IF s = 1 /\ t THEN "check" ELSE "none"]
    /\ waitq = [s \in Stores |-> <<>>]
    /\ clpc = [s \in Stores |-> "idle"]
    /\ prod = [p \in Producers |-> IdleProd]
    /\ nstore = 0
    /\ pc = [t \in Waiters |->
                IF t \in Clients THEN "idle"
                ELSE IF t = Relay(1) /\ relay THEN "wait" ELSE "off"]
    /\ wst = [t \in Waiters |-> IF t \in Relays THEN t - 20 ELSE 0]
    /\ todo = [t \in Waiters |-> {}]
    /\ res = [t \in Waiters |-> "none"]
    /\ handles = [h \in HandleIds |-> FreeHandle]
    /\ sendErr = [r \in Relays |-> FALSE]

\* ------------------------------------------------------------ specifications

\* Store 1 over an empty directory, with or without a timeout, used through
\* its interface: one producer storing one payload, the client goroutines,
\* one call of Close and the timer goroutine.
Init == InitWith({EmptyDir}, {TRUE, FALSE}, FALSE)

Next ==
    \/ StoreLock(1, 1, 1)
    \/ StoreStat(1)
    \/ StoreWrite(1)
    \/ StoreCount(1)
    \/ StoreSignal(1)
    \/ StoreUnlock(1)
    \/ StoreReturn(1)
    \/ \E t \in Clients : WaitCall(t, 1)
    \/ \E t \in Clients : WaitWoken(t)
    \/ \E t \in Clients : GetList(t, 1)
    \/ \E t \in Clients : GetVisit(t)
    \/ \E t \in Clients : GetEmpty(t)
    \/ \E t \in Clients : ClientReturn(t)
    \/ \E h \in HandleIds : HClose(h)
    \/ \E h \in HandleIds : HRemoveFile(h)
    \/ \E h \in HandleIds : HRemoveUnlock(h)
    \/ \E h \in HandleIds : HRemoveUnlink(h)
    \/ \E h \in HandleIds : HRemoveCount(h)
    \/ CloseCrit(1)
    \/ CloseSignal(1)
    \/ TimerCheck(1)
    \/ TimerReset(1)
    \/ TimerFire(1)
    \/ TimerCrit(1)
    \/ TimerSignal(1)

Spec == Init /\ [][Next]_vars

\* The notifier alone: the client goroutines calling Wait on the empty
\* store 1, one call of Close and the timer goroutine.
NextNotify ==
    \/ \E t \in Clients : WaitCall(t, 1)
    \/ \E t \in Clients : WaitWoken(t)
    \/ \E t \in Clients : ClientReturn(t)
    \/ CloseCrit(1)
    \/ CloseSignal(1)
    \/ TimerCheck(1)
    \/ TimerReset(1)
    \/ TimerFire(1)
    \/ TimerCrit(1)
    \/ TimerSignal(1)

SpecNotify == Init /\ [][NextNotify]_vars

\* The Go scheduler runs every goroutine that can run: one that was
\* signalled, one that returns, the caller of Close, the timer goroutine,
\* and the runtime timer expires once armed. Nobody has to call Wait.
FairNotify ==
    /\ SpecNotify
    /\ \A t \in Clients : WF_vars(WaitWoken(t))
    /\ \A t \in Clients : WF_vars(ClientReturn(t))
    /\ WF_vars(CloseSignal(1))
    /\ WF_vars(TimerCheck(1))
    /\ WF_vars(TimerReset(1))
    /\ WF_vars(TimerFire(1))
    /\ WF_vars(TimerCrit(1))
    /\ WF_vars(TimerSignal(1))

\* The server: store 1 over an empty directory with its relay loop
\* (startStorage), the producers, the sink, one call of Close and the timer
\* goroutine.
InitRelay == InitWith({EmptyDir}, {TRUE, FALSE}, TRUE)

NextRelay ==
    \/ Tick
    \/ \E p \in Producers, d \in Data : StoreLock(p, 1, d)
    \/ \E p \in Producers, d \in Data : StoreLockErr(p, 1, d)
    \/ \E p \in Producers : StoreStat(p)
    \/ \E p \in Producers : StoreWrite(p)
    \/ \E p \in Producers : StoreWriteFail(p)
    \/ \E p \in Producers : StoreCount(p)
    \/ \E p \in Producers : StoreSignal(p)
    \/ \E p \in Producers : StoreUnlock(p)
    \/ \E p \in Producers : StoreReturn(p)
    \/ WaitCall(Relay(1), 1)
    \/ WaitWoken(Relay(1))
    \/ GetList(Relay(1), 1)
    \/ GetListErr(Relay(1), 1)
    \/ GetLockErr(Relay(1))
    \/ GetVisit(Relay(1))
    \/ GetEmpty(Relay(1))
    \/ SendOk(Relay(1))
    \/ SendFail(Relay(1))
    \/ \E h \in HandleIds : HClose(h)
    \/ \E h \in HandleIds : HRemoveFile(h)
    \/ \E h \in HandleIds : HRemoveFail(h)
    \/ \E h \in HandleIds : HRemoveUnlock(h)
    \/ \E h \in HandleIds : HRemoveUnlink(h)
    \/ \E h \in HandleIds : HRemoveCount(h)
    \/ CloseCrit(1)
    \/ CloseSignal(1)
    \/ TimerCheck(1)
    \/ TimerReset(1)
    \/ TimerFire(1)
    \/ TimerCrit(1)
    \/ TimerSignal(1)

SpecRelay == InitRelay /\ [][NextRelay]_vars

\* The steps of the goroutines of the server, each goroutine's taken
\* together: it is at one statement at a time.
ProducerNext(p) ==
    \/ StoreStat(p) \/ StoreWrite(p) \/ StoreWriteFail(p) \/ StoreCount(p)
    \/ StoreSignal(p) \/ StoreUnlock(p) \/ StoreReturn(p)
RelayNext(r) ==
    \/ WaitCall(r, 1) \/ WaitWoken(r)
    \/ GetList(r, 1) \/ GetListErr(r, 1) \/ GetLockErr(r) \/ GetVisit(r)
    \/ GetEmpty(r)
    \/ SendOk(r) \/ SendFail(r)
    \/ \E h \in HandleIds :
          \/ HClose(h) \/ HRemoveFile(h) \/ HRemoveFail(h)
          \/ HRemoveUnlock(h) \/ HRemoveUnlink(h) \/ HRemoveCount(h)
TimerNext(s) ==
    \/ TimerCheck(s) \/ TimerReset(s) \/ TimerFire(s) \/ TimerCrit(s)
    \/ TimerSignal(s)

\* The server on a store that stays open: one producer, the relay loop, the
\* sink and the timer goroutine, with every failure of the file system and
\* of the sink.
NextDeliver ==
    \/ \E d \in Data : StoreLock(1, 1, d)
    \/ \E d \in Data : StoreLockErr(1, 1, d)
    \/ ProducerNext(1)
    \/ RelayNext(Relay(1))
    \/ TimerNext(1)

SpecDeliver == InitRelay /\ [][NextDeliver]_vars

\* Every goroutine is scheduled again and again, and the sink does not fail
\* forever.
FairDeliver ==
    /\ SpecDeliver
    /\ WF_vars(ProducerNext(1))
    /\ WF_vars(RelayNext(Relay(1)))
    /\ WF_vars(TimerNext(1))
    /\ SF_vars(SendOk(Relay(1)))

\* The server and one call of Close.
NextShutdown ==
    \/ NextDeliver
    \/ CloseCrit(1)
    \/ CloseSignal(1)

SpecShutdown == InitRelay /\ [][NextShutdown]_vars

\* Every goroutine is scheduled again and again and every call returns.
FairShutdown ==
    /\ SpecShutdown
    /\ WF_vars(ProducerNext(1))
    /\ WF_vars(RelayNext(Relay(1)))
    /\ WF_vars(TimerNext(1))
    /\ WF_vars(CloseSignal(1))

\* The goroutine that takes the items out.
Drainer == CHOOSE t \in Clients : \A u \in Clients : t <= u

\* Two instances over one directory: store 2 is built (a restarted process)
\* while store 1 is still in use, and fsData are taken from both.
NextRestart ==
    \/ \E d \in Data : StoreLock(1, 1, d)
    \/ ProducerNext(1)
    \/ NewFS(2, FALSE, FALSE)
    \/ \E st \in Stores : GetList(Drainer, st)
    \/ GetVisit(Drainer)
    \/ GetEmpty(Drainer)
    \/ ClientReturn(Drainer)
    \/ \E h \in HandleIds :
          \/ HClose(h) \/ HRemoveFile(h) \/ HRemoveUnlock(h)
          \/ HRemoveUnlink(h) \/ HRemoveCount(h)

SpecRestart == InitWith({EmptyDir}, {FALSE}, FALSE) /\ [][NextRestart]_vars

\* A store built over a directory a previous run left files in, with
\* producers storing and one goroutine taking items out.
NextPrepop ==
    \/ \E p \in Producers, d \in Data : StoreLock(p, 1, d)
    \/ \E p \in Producers :
          \/ StoreStat(p) \/ StoreWrite(p) \/ StoreCount(p)
          \/ StoreSignal(p) \/ StoreUnlock(p) \/ StoreReturn(p)
    \/ GetList(Drainer, 1)
    \/ GetVisit(Drainer)
    \/ GetEmpty(Drainer)
    \/ ClientReturn(Drainer)
    \/ \E h \in HandleIds :
          \/ HRemoveFile(h) \/ HRemoveUnlock(h)
          \/ HRemoveUnlink(h) \/ HRemoveCount(h)

SpecPrepop == InitWith(AnyDir, {FALSE}, FALSE) /\ [][NextPrepop]_vars

\* Recovery (TestPrepopulated): producers fill store 1, the process dies or
\* the store is dropped, NewFS builds store 2 over the same directory and
\* one goroutine drains it with Wait, Get and Remove.

NextRecover ==
    \/ Tick
    \/ \E p \in Producers, d \in Data : StoreLock(p, 1, d)
    \/ \E p \in Producers : ProducerNext(p)
    \/ Crash(1)
    \/ \E timeout \in BOOLEAN : status[1] = "dead" /\ NewFS(2, timeout, FALSE)
    \/ WaitCall(Drainer, 2)
    \/ WaitWoken(Drainer)
    \/ GetList(Drainer, 2)
    \/ GetVisit(Drainer)
    \/ GetEmpty(Drainer)
    \/ ClientReturn(Drainer)
    \/ \E h \in HandleIds :
          \/ HRemoveFile(h) \/ HRemoveUnlock(h) \/ HRemoveUnlink(h)
          \/ HRemoveCount(h)
    \/ TimerNext(2)

SpecRecover == InitWith({EmptyDir}, {FALSE}, FALSE) /\ [][NextRecover]_vars

\* The files and their locks alone: Store, Get and the fsData methods called
\* from any number of goroutines, nobody waiting.
InitFS == InitWith({EmptyDir}, {FALSE}, FALSE)

NextFS ==
    \/ Tick
    \/ \E p \in Producers, d \in Data : StoreLock(p, 1, d)
    \/ \E p \in Producers, d \in Data : StoreLockErr(p, 1, d)
    \/ \E p \in Producers : StoreStat(p)
    \/ \E p \in Producers : StoreWrite(p)
    \/ \E p \in Producers : StoreWriteFail(p)
    \/ \E p \in Producers : StoreCount(p)
    \/ \E p \in Producers : StoreSignal(p)
    \/ \E p \in Producers : StoreUnlock(p)
    \/ \E p \in Producers : StoreReturn(p)
    \/ \E t \in Clients : GetList(t, 1)
    \/ \E t \in Clients : GetListErr(t, 1)
    \/ \E t \in Clients : GetLockErr(t)
    \/ \E t \in Clients : GetVisit(t)
    \/ \E t \in Clients : GetEmpty(t)
    \/ \E t \in Clients : ClientReturn(t)
    \/ \E h \in HandleIds : HClose(h)
    \/ \E h \in HandleIds : HRemoveFile(h)
    \/ \E h \in HandleIds : HRemoveUnlock(h)
    \/ \E h \in HandleIds : HRemoveUnlink(h)
    \/ \E h \in HandleIds : HRemoveCount(h)

SpecFS == InitFS /\ [][NextFS]_vars

\* No call of Store, Get or Remove is in progress.
Quiet ==
    /\ \A p \in Producers : prod[p].pc \in {"idle", "ret"}
    /\ \A t \in Clients : pc[t] \in {"idle", "ret"}
    /\ \A h \in HandleIds : handles[h].st \in {"free", "open"}

\* One goroutine using the store as TestLocalFS does: every call of Store,
\* Get, Close and Remove begins when the call before it has returned.
NextSeq ==
    \/ Tick
    \/ \E p \in Producers, d \in Data : Quiet /\ StoreLock(p, 1, d)
    \/ \E p \in Producers, d \in Data : Quiet /\ StoreLockErr(p, 1, d)
    \/ \E p \in Producers : ProducerNext(p)
    \/ \E t \in Clients : Quiet /\ GetList(t, 1)
    \/ \E t \in Clients : Quiet /\ GetListErr(t, 1)
    \/ \E t \in Clients : GetLockErr(t)
    \/ \E t \in Clients : GetVisit(t)
    \/ \E t \in Clients : GetEmpty(t)
    \/ \E t \in Clients : ClientReturn(t)
    \/ \E h \in HandleIds : Quiet /\ HClose(h)
    \/ \E h \in HandleIds : Quiet /\ HRemoveFile(h)
    \/ \E h \in HandleIds : HRemoveUnlock(h)
    \/ \E h \in HandleIds : HRemoveUnlink(h)
    \/ \E h \in HandleIds : HRemoveCount(h)

SpecSeq == InitFS /\ [][NextSeq]_vars

\* ------------------------------------------------------------------ claims

\* The fsData objects neither Close nor Remove was called on.
Live == {h \in HandleIds : handles[h].st = "open"}

\* C1: within one store every stored item has at most one live Handle: no
\* two fsData objects that were neither closed nor removed hold the same
\* file.
C1_OneLiveHandle ==
    \A h \in Live, g \in Live : handles[h].name = handles[g].name => h = g

\* A Store call that returned found the payload of its name in the directory
\* from its first to its last step.
SeenRet(p) == prod[p].pc = "ret" /\ prod[p].seen

\* C4 (as claimed): when Store(b) has returned Ok, a second Store(b) within
\* the same second returns DuplicateStore.
C4_SecondIsDuplicate ==
    \A p \in Producers : SeenRet(p) => prod[p].res = "DuplicateStore"

\* C4 (amended): a Store call that finds the payload of its name stored and
\* not removed never writes and never counts: it returns DuplicateStore, or
\* StoreLockFailed when its lock attempt fails with an error.
C4_SecondIsRejected ==
    \A p \in Producers :
        prod[p].seen =>
            /\ prod[p].pc \in {"stat", "ret"}
            /\ prod[p].pc = "ret" =>
                   prod[p].res \in {"DuplicateStore", "StoreLockFailed"}

C4_Witness ==
    \E p \in Producers :
        /\ SeenRet(p)
        /\ prod[p].res = "DuplicateStore"
        /\ queued[1] = 1
        /\ Present = {prod[p].name}

\* Store.Close has returned on store 1.
Closed == clpc[1] = "done"

\* Client t's call of Wait returns r in this step.
WaitReturns(t, r) == pc[t] # "ret" /\ pc'[t] = "ret" /\ res'[t] = r

\* C5: every Wait call that starts after Store.Close has returned returns
\* StoreClosed.
C5_WaitAfterClose ==
    [][\A t \in Clients :
          Closed /\ pc[t] = "idle" /\ pc'[t] = "ret"
              => res'[t] = "StoreClosed"]_vars

\* C6: when Store.Close is called while goroutines are blocked in Wait,
\* every one of them eventually returns, with StoreClosed.
C6_BlockedWaitersReturn ==
    \A t \in Clients :
        (pc[t] \in {"waiting", "woken"} /\ Closed)
            ~> (pc[t] = "ret" /\ res[t] = "StoreClosed")

\* C7: once Store.Close has returned, no Wait call returns Ok.
C7_NoOkAfterClose ==
    [][\A t \in Clients : WaitReturns(t, "Ok") => ~Closed]_vars

C7_Witness ==
    \E t \in Clients :
        Closed /\ queued[1] > 0 /\ pc[t] = "ret" /\ res[t] = "StoreClosed"

\* C8: Wait on an open store returns Ok whenever the pending count is
\* greater than zero when it returns; TimedOut only when the count is zero.
C8_OkWhenPending ==
    [][\A t \in Clients :
          /\ run[1] /\ queued[1] > 0
          /\ \E r \in {"Ok", "TimedOut", "StoreClosed"} : WaitReturns(t, r)
          => res'[t] = "Ok"]_vars

\* The payload files deleted in this step.
Deleted == {n \in Names : files[n] # NoFile /\ files'[n] = NoFile}

\* C2: the relay loop deletes a payload only after Sink.Send succeeded for
\* the fsData it holds, and after a failed Send it calls Close and never
\* Remove: the payload file is still there when the loop starts over.
C2_FailedSendKeepsPayload ==
    [][LET r == Relay(1) IN
          /\ Deleted # {} =>
                /\ pc[r] = "remove"
                /\ ~sendErr[r]
                /\ Deleted = {handles[RelayHandle(r)].name}
          /\ (pc[r] = "send" /\ pc'[r] # "send" /\ sendErr'[r])
                => pc'[r] = "close"
          /\ (pc[r] = "close" /\ pc'[r] # "close" /\ sendErr[r])
                => /\ pc'[r] = "wait"
                   /\ files'[handles[RelayHandle(r)].name] # NoFile
         ]_vars

C2_Witness ==
    /\ pc[Relay(1)] = "wait"
    /\ sendErr[Relay(1)]
    /\ Present # {}
    /\ \A h \in HandleIds : handles[h].st = "free"

\* Store returned nil for the payload named n, and the payload is in the
\* directory.
StoredOk(n) ==
    /\ \E p \in Producers :
          prod[p].pc = "ret" /\ prod[p].res = "Ok" /\ prod[p].name = n
    /\ Intact(n)

\* A file-system call of the relay loop fails: the directory cannot be
\* listed, a lock attempt ends in an error, the file cannot be deleted.
FsFail(r) ==
    \/ GetListErr(r, 1)
    \/ GetLockErr(r)
    \/ \E h \in HandleIds : HRemoveFail(h)

\* From some moment on no file-system call of the relay loop fails.
FsRecovers == <>[][~FsFail(Relay(1))]_vars

\* C3 (as claimed): on a store that stays open, every payload whose Store
\* returned nil is in the end sent and removed, given fair scheduling and a
\* sink that does not fail forever.
C3_EventuallyDelivered ==
    \A n \in Names : StoredOk(n) ~> (files[n] = NoFile)

\* C3 (amended): the same, given also that the file-system calls of the
\* relay loop (listing the directory, locking a file, deleting it) stop
\* failing at some moment.
C3_DeliveredWhenFsRecovers ==
    FsRecovers => \A n \in Names : StoredOk(n) ~> (files[n] = NoFile)

C3_Witness ==
    /\ run[1]
    /\ \E n \in Names, p \in Producers :
          /\ prod[p].pc = "ret" /\ prod[p].res = "Ok" /\ prod[p].name = n
          /\ files[n] = NoFile
    /\ pc[Relay(1)] = "wait"
    /\ ~sendErr[Relay(1)]

\* Client t is blocked in Wait on store 1, which was built with a timeout.
BlockedOnTimer(t) == pc[t] \in {"waiting", "woken"} /\ tpc[1] # "none"

TimedOutRet(t) == pc[t] = "ret" /\ res[t] = "TimedOut"

\* C9 (as claimed): on an open store with a timeout and no items, every
\* blocked Wait in the end returns ErrTimedOut, or the store is closed.
C9_BlockedWaitTimesOut ==
    \A t \in Clients :
        (BlockedOnTimer(t) /\ run[1] /\ queued[1] = 0)
            ~> (TimedOutRet(t) \/ ~run[1])

\* C9 (amended): the same for a goroutine that is alone in Wait: it returns
\* ErrTimedOut, or the store is closed, or another goroutine calls Wait.
C9_LoneWaitTimesOut ==
    \A t \in Clients :
        (BlockedOnTimer(t) /\ run[1] /\ queued[1] = 0)
            ~> \/ TimedOutRet(t)
               \/ ~run[1]
               \/ \E u \in Clients \ {t} : pc[u] # "idle"

C9_Witness ==
    /\ run[1]
    /\ queued[1] = 0
    /\ forceWake[1] = FALSE
    /\ \E t \in Clients :
          TimedOutRet(t) /\ \A u \in Clients \ {t} : pc[u] = "idle"

\* Every file of the directory is a payload stored whole under its name.
Clean == \A n \in Present : Intact(n)

\* Store 2 was built over what store 1 left, and store 1 is gone.
Recovering == status[1] = "dead" /\ status[2] = "up"

\* The fsData of store 2 whose Remove has deleted the file and not yet
\* lowered the count.
Removing == {h \in HandleIds : handles[h].st \in {"rm_unlock", "rm_unlink", "rm_count"}}

GetReturns(t, r) == pc[t] = "scan" /\ pc'[t] = "ret" /\ res'[t] = r

\* The files Get may return: whole payloads no fsData holds.
Free == {n \in Present : Intact(n) /\ \A h \in HandleIds : handles[h].st = "free" \/ handles[h].name # n}

\* fsData.Bytes (lines 417-421): a copy of the bytes read by Get.
Bytes(h) == handles[h].data

\* C11: used from one goroutine, Get returns an fsData whose Bytes are the
\* msg its file was stored from, and GetEmpty only when there is no item
\* left to return; Remove returning nil leaves the count one lower, the file
\* gone, and the item out of reach of every later Get.
C11_RoundTrip ==
    [][/\ \A t \in Clients :
            /\ GetReturns(t, "GetEmpty") => Free = {}
            /\ GetReturns(t, "Handle") =>
                  \E h \in HandleIds :
                      /\ handles[h].st = "free" /\ handles'[h].st = "open"
                      /\ handles'[h].name \in Free
                      /\ \A d \in Data :
                            (\E tm \in Times : handles'[h].name = FileName(tm, d))
                                => Bytes(h)' = d
       /\ \A h \in HandleIds :
            (handles[h].st = "rm_count" /\ handles'[h].st = "free") =>
                /\ queued'[1] = queued[1] - 1
                /\ files[handles[h].name] = NoFile
                /\ handles[h].name \notin Free
      ]_vars

C11_Witness ==
    /\ \E p \in Producers :
          /\ prod[p].pc = "ret" /\ prod[p].res = "Ok"
          /\ files[prod[p].name] = NoFile
    /\ queued[1] = 0
    /\ Present = {}
    /\ \E t \in Clients : pc[t] = "ret" /\ res[t] = "GetEmpty"

\* Close returns for fsData h.
Closes(h) == handles[h].st = "open" /\ handles'[h].st = "free"

\* C12: Close without Remove leaves the count and the payload file as they
\* were and the item free to be returned again; a later Get that finds it
\* the only free item returns an fsData with the same bytes.
C12_Redelivery ==
    [][/\ \A h \in HandleIds :
            Closes(h) =>
                /\ queued' = queued
                /\ files'[handles[h].name] = Bytes(h)
                /\ handles[h].name \in Free'
       /\ \A t \in Clients, n \in Names :
            (Free = {n} /\ \E r \in {"Handle", "GetEmpty"} : GetReturns(t, r)) =>
                \E h \in HandleIds :
                    /\ handles[h].st = "free" /\ handles'[h].st = "open"
                    /\ handles'[h].name = n
                    /\ Bytes(h)' = files[n]
      ]_vars

C12_Witness ==
    /\ nstore = 1
    /\ queued[1] = 1
    /\ Cardinality(Free) = 1
    /\ Free \subseteq lockdir
    /\ \A h \in HandleIds : handles[h].st = "free"
    /\ \E t \in Clients : pc[t] = "ret" /\ res[t] = "Handle"

\* The whole payload files of the directory.
Payloads == {n \in Present : Intact(n)}

\* C13: whenever no call of Store or Remove is in progress, queued is the
\* number of payload files in the directory.
C13_CountIsFiles == Quiet => queued[1] = Cardinality(Payloads)

\* C14: once Close has been called the relay loop ends, wherever it was.
C14_RelayEnds == (clpc[1] # "idle") ~> (pc[Relay(1)] = "done")

C14_Witness ==
    /\ pc[Relay(1)] = "done"
    /\ clpc[1] = "done"
    /\ sendErr[Relay(1)]
    /\ Present # {}

\* C15: no item has a live fsData of store 1 and a live fsData of store 2
\* at the same time.
C15_OneHandleAcrossStores ==
    \A h \in Live, g \in Live :
        handles[h].name = handles[g].name => handles[h].store = handles[g].store

\* C16: a store built with timeout zero has no timer and never sets
\* forceWake; its Wait never returns ErrTimedOut, and returns only when the
\* count is positive or the store is closed.
C16_NoTimerNoTimeout ==
    [][tpc[1] = "none" =>
          /\ timer[1] = "none"
          /\ ~forceWake[1] /\ ~forceWake'[1]
          /\ \A t \in Clients, r \in {"Ok", "TimedOut", "StoreClosed"} :
                WaitReturns(t, r) =>
                    /\ r # "TimedOut"
                    /\ queued[1] > 0 \/ ~run[1]
      ]_vars

C16_Witness ==
    /\ tpc[1] = "none"
    /\ run[1]
    /\ \E t \in Clients : pc[t] = "ret" /\ res[t] = "Ok"
    /\ \E u \in Clients : pc[u] = "waiting"

\* Store call p writes its payload file in this step.
Writes(p) == prod[p].pc = "write" /\ prod'[p].pc = "count"

\* C17: of the Store calls of one file name at most one writes the payload
\* and raises the count for a payload file: no call writes a payload that
\* is in the directory already.
C17_OneWritePerFile ==
    [][\A p \in Producers : Writes(p) => ~Intact(prod[p].name)]_vars

\* The Wait of the relay loop returns ErrTimedOut in this step: it is the
\* only caller of Wait, and Wait clears forceWake when it reports it.
RelayTimesOut == forceWake[1] /\ ~forceWake'[1]

\* C18 (as claimed): after ErrTimedOut the relay loop is at Wait again,
\* with no call of Get in between.
C18_TimedOutStartsOver ==
    [][RelayTimesOut => pc'[Relay(1)] = "wait"]_vars

\* C18 (amended): after ErrTimedOut the relay loop goes on to Get as after
\* nil, and it calls the sink only with an fsData that Get returned.
C18_TimedOutGoesToGet ==
    [][LET r == Relay(1) IN
          /\ RelayTimesOut => pc'[r] = "get"
          /\ (pc[r] # "send" /\ pc'[r] = "send") =>
                /\ pc[r] = "scan"
                /\ \E h \in HandleIds :
                      /\ handles[h].st = "free"
                      /\ handles'[h].st = "open"
                      /\ handles'[h].owner = r
         ]_vars

C18_Witness ==
    /\ pc[Relay(1)] = "scan"
    /\ todo[Relay(1)] = {}
    /\ queued[1] = 0
    /\ run[1]
    /\ tpc[1] # "none"

\* The relay loop is at the start of an iteration: before, in or just out
\* of Wait.
AtWait(r) == pc[r] \in {"wait", "waiting", "woken"}

\* C19: at the start of every iteration the relay loop holds no lock of an
\* item: every fsData it got from Get was released by Remove or by Close.
C19_NoLockAtWait ==
    \A r \in Relays : \A h \in HandleIds :
        AtWait(r) => handles[h].owner # r

\* The loop is back at Wait after a failed Send and the Close that follows
\* it, the payload still there.
C19_Witness ==
    /\ AtWait(Relay(1))
    /\ sendErr[Relay(1)]
    /\ \E n \in Names : Intact(n)
    /\ \A h \in HandleIds : handles[h].st = "free"

\* The state of the item named n in a directory f with the fsData hs: no
\* payload file, a payload file an fsData holds, or a payload file alone.
ItemState(f, hs, n) ==
    IF f[n] = NoFile THEN "Removed"
    ELSE IF \E h \in HandleIds : hs[h].st = "open" /\ hs[h].name = n
         THEN "Claimed"
         ELSE "Stored"

\* The moves the relay loop and Store may make an item take.
ItemMoves ==
    {<<"Stored", "Claimed">>, <<"Claimed", "Removed">>,
     <<"Claimed", "Stored">>, <<"Removed", "Stored">>}

\* The step is the WriteFile of a Store call for the name n.
StoreWrites(n) ==
    \E p \in Producers :
        prod[p].pc = "write" /\ prod[p].name = n /\ prod'[p].pc # "write"

\* C20: under the relay loop an item only moves Stored -> Claimed ->
\* Removed or Claimed -> Stored; its payload file is deleted only by an
\* fsData that holds the lock of the item, before and after the deletion;
\* and an item that was removed comes back only as Stored, by the WriteFile
\* of a Store call.
C20_ItemStateMachine ==
    [][\A n \in Names :
          LET a == ItemState(files, handles, n)
              b == ItemState(files', handles', n)
          IN  /\ a # b => <<a, b>> \in ItemMoves
              /\ (a # "Removed" /\ b = "Removed") =>
                    \E h \in HandleIds :
                        /\ handles[h].name = n
                        /\ handles[h].owner \in Relays
                        /\ handles[h].st = "open" /\ handles[h].linked
                        /\ HandleHolds(h)' /\ handles'[h].linked
              /\ (a = "Removed" /\ b # "Removed") => StoreWrites(n)
      ]_vars

\* An item was removed by the relay loop and stored again before Remove
\* returned.
C20_Witness ==
    \E h \in HandleIds :
        /\ handles[h].st = "rm_count"
        /\ handles[h].owner = Relay(1)
        /\ Intact(handles[h].name)

\* Count returns the pending count of the store, read under the mutex.
Count(s) == queued[s]

\* A call of Store has written the payload file of n and has not returned.
Creating(n) ==
    \E p \in Producers :
        prod[p].name = n /\ prod[p].pc \in {"count", "signal", "unlock"}

\* The steps a call of Store takes once os.WriteFile has succeeded.
StoreTail ==
    {<<"count", "signal">>, <<"signal", "unlock">>, <<"unlock", "ret">>}

\* The count goes up only in StoreCount; a call of Store comes to StoreCount
\* only from an os.WriteFile that wrote the whole payload, and from there it
\* returns nil.
CountedAfterWrite ==
    /\ (Count(1)' > Count(1)) =>
          (\E p \in Producers :
              prod[p].pc = "count" /\ prod'[p].pc = "signal")
    /\ \A p \in Producers :
          /\ (prod[p].pc # "count" /\ prod'[p].pc = "count") =>
                (prod[p].pc = "write" /\ files'[prod[p].name] = prod[p].data)
          /\ (prod[p].pc \in {"count", "signal", "unlock"}
                  /\ prod'[p].pc # prod[p].pc) =>
                (/\ <<prod[p].pc, prod'[p].pc>> \in StoreTail
                 /\ prod'[p].res = (IF prod'[p].pc = "ret" THEN "Ok" ELSE "none"))

LoneConsumer(t) == \A u \in Clients \ {t} : pc[u] = "idle"

\* A call of Store has returned nil and its item is still counted.
StoreReturnedOk ==
    /\ queued[1] > 0
    /\ \E p \in Producers : prod[p].pc = "ret" /\ prod[p].res = "Ok"

\* C22: when Store has returned nil while the one consumer is blocked in
\* Wait on an open store, or before it calls Wait, that call of Wait
\* returns nil, with a timeout or without.
C22_NoLostWake ==
    [][\A t \in Clients :
          (/\ LoneConsumer(t) /\ run[1] /\ StoreReturnedOk
           /\ pc[t] \in {"idle", "waiting", "woken"}
           /\ pc'[t] = "ret" /\ wst'[t] = 1 /\ res'[t] \notin {"Handle", "GetEmpty"})
          => res'[t] = "Ok"]_vars

\* The step is line 288 of a call of Store on store s.
Increments(s) ==
    \E p \in Producers :
        /\ prod[p].store = s
        /\ prod[p].pc = "count" /\ prod'[p].pc = "signal"

\* The step is lines 438-444 of a call of Remove on an fsData of store s.
Decrements(s) ==
    \E h \in HandleIds :
        /\ handles[h].store = s
        /\ handles[h].st = "rm_count" /\ handles'[h].st = "free"

\* A call of Store by p returns an error in this step.
StoreFails(p) ==
    /\ prod[p].pc # "ret" /\ prod'[p].pc = "ret"
    /\ prod'[p].res # "Ok"

\* C23: the count changes only by plus one in a Store that returns nil and
\* by minus one in a Remove that returns nil; every other step, of Get,
\* Wait, Close, fsData.Close, the timer, a failing Store or a failing
\* Remove, leaves it as it is, and a failing Store signals nobody.
C23_CountFrame ==
    [][/\ \A s \in Stores :
            queued'[s] # queued[s] =>
                \/ queued'[s] = queued[s] + 1 /\ Increments(s)
                \/ queued'[s] = queued[s] - 1 /\ Decrements(s)
       /\ \A p \in Producers :
            StoreFails(p) =>
                /\ prod[p].pc \in {"idle", "stat", "write"}
                /\ UNCHANGED <<queued, waitq, pc>>
      ]_vars

\* A Store has failed on an empty store and the relay loop is still
\* blocked in Wait.
C23_Witness ==
    /\ queued[1] = 0
    /\ pc[Relay(1)] = "waiting"
    /\ \E p \in Producers : prod[p].pc = "ret" /\ prod[p].res = "StoreFailed"

\* C24: the count of a store is never negative, also when Remove is called
\* on an fsData of a store whose count is zero.
C24_NonNegative == \A s \in Stores : queued[s] >= 0

\* Remove has deleted the payload and comes to lines 438-442 on a store
\* whose count is zero: store 2 was built before store 1 stored the item.
C24_Witness ==
    \E h \in HandleIds :
        /\ handles[h].st = "rm_count"
        /\ handles[h].store = 2
        /\ queued[2] = 0
        /\ queued[1] = 1

\* The bytes of fsData h are a payload whose hash is the hash part of the
\* name of its file.
Verified(h) ==
    /\ ~IsShort(handles[h].name)
    /\ handles[h].data \in Data
    /\ HashHex(handles[h].data) = hash_str(handles[h].name)

\* The walk of goroutine t passes over an entry in this step.
Skips(t) ==
    /\ pc[t] = "scan" /\ pc'[t] = "scan"
    /\ todo'[t] # todo[t]

\* C25: Get never returns an fsData whose bytes do not hash to the hash
\* part of its name; a file with a short name, unreadable or corrupted is
\* passed over and left as it is, and the walk goes on with the entries
\* after it.
C25_IntegrityFilter ==
    /\ [](\A h \in HandleIds : handles[h].st = "open" => Verified(h))
    /\ [][\A t \in Clients :
            LET n == First(todo[t]) IN
            /\ Skips(t) =>
                  /\ LinkedHeld(n) \/ ~Intact(n)
                  /\ files' = files
                  /\ handles' = handles
                  /\ todo'[t] = todo[t] \ {n}
            /\ (pc[t] = "scan" /\ todo[t] # {} /\ ~Intact(n)) =>
                  pc'[t] = "scan"
         ]_vars

\* Get has returned a whole payload although a corrupted file and a file
\* with a short name, both still in the directory, came before it in the
\* walk.
C25_Witness ==
    \E h \in HandleIds :
        /\ handles[h].st = "open"
        /\ files[ShortName] = Garbage
        /\ \E m \in Present \ {ShortName} :
              files[m] = Garbage /\ Before(m, handles[h].name)

\* Store s is constructed in this step.
Constructs(s) == status[s] = "none" /\ status'[s] = "up"

\* The lock of n is held only by fsData that store 1 handed out before
\* store 2 was constructed: their lock files were discarded.
StaleHeld(n) ==
    /\ \E h \in HandleIds :
          handles[h].st = "open" /\ handles[h].name = n /\ handles[h].store = 1
    /\ \A h \in HandleIds :
          (HandleHolds(h) /\ handles[h].name = n) =>
              (handles[h].store = 1 /\ ~handles[h].linked)
    /\ \A p \in Producers :
          (ProdHolds(p) /\ prod[p].name = n) => ~prod[p].linked

\* C26: an item that is in the directory with an fsData open on it when a
\* new store is constructed over the directory is there and unlocked after
\* the construction, and Get of the new store returns it when its walk
\* comes to it, the old fsData still open.
C26_ClaimedRecovered ==
    [][/\ Constructs(2) =>
            \A h \in HandleIds :
                (handles[h].st = "open" /\ Intact(handles[h].name)) =>
                    (Intact(handles[h].name) /\ ~LinkedHeld(handles[h].name))'
       /\ LET n == First(todo[Drainer]) IN
            (/\ pc[Drainer] = "scan" /\ wst[Drainer] = 2
             /\ todo[Drainer] # {} /\ todo'[Drainer] # todo[Drainer]
             /\ Intact(n) /\ StaleHeld(n))
            => \E h \in HandleIds :
                   /\ handles[h].st = "free"
                   /\ handles'[h].st = "open"
                   /\ handles'[h].store = 2
                   /\ handles'[h].name = n
                   /\ handles'[h].data = files[n]
      ]_vars

\* The item an fsData of store 1 still holds has been returned by Get of
\* store 2.
C26_Witness ==
    \E h, g \in HandleIds :
        /\ handles[h].st = "open" /\ handles[h].store = 1 /\ ~handles[h].linked
        /\ handles[g].st = "open" /\ handles[g].store = 2 /\ handles[g].linked
        /\ handles[g].name = handles[h].name

\* The walk of Get by goroutine t ends in this step on an entry whose
\* TryLock returned an error: Get returns with entries left and no fsData.
LockAttemptFails(t) ==
    /\ pc[t] = "scan" /\ todo[t] # {}
    /\ pc'[t] = "ret" /\ res'[t] # "Handle"

\* C27: when TryLock fails with an error inside Get, Get returns
\* ErrGetLockFailed.
C27_GetLockFailed ==
    [][\A t \in Clients :
          LockAttemptFails(t) => res'[t] = "GetLockFailed"]_vars

\* The items an fsData holds, and the whole payloads nobody holds.
ClaimedItems == {n \in Names : \E h \in HandleIds :
                    handles[h].st = "open" /\ handles[h].name = n}
Unclaimed == {n \in Names : Intact(n) /\ ~LinkedHeld(n)}

\* C28: when the directory holds a claimed item and a whole payload nobody
\* holds, a Get that returns an fsData or ErrGetEmpty returns an fsData,
\* for an item that was not claimed.
C28_SkipsClaimed ==
    [][\A t \in Clients :
          (/\ pc[t] = "scan" /\ pc'[t] = "ret"
           /\ res'[t] \in {"Handle", "GetEmpty"}
           /\ ClaimedItems # {} /\ Unclaimed # {})
          => /\ res'[t] = "Handle"
             /\ \E h \in HandleIds :
                   /\ handles[h].st = "free" /\ handles'[h].st = "open"
                   /\ handles'[h].name \in Unclaimed]_vars

\* Two items are held: the one stored first, first in the walk, and the
\* one stored a second later, which a Get returned past it.
C28_Witness ==
    \E h, g \in HandleIds :
        /\ handles[h].st = "open" /\ handles[g].st = "open"
        /\ handles[h].name[1] < handles[g].name[1]

\* The call of Get by goroutine t takes a step: its walk passes an entry,
\* or the call returns.
GetStep(t) ==
    /\ pc[t] = "scan"
    /\ todo'[t] # todo[t] \/ pc'[t] # "scan"

\* C29: a call of Get changes who holds a lock only when it returns an
\* fsData, and then by the lock of that fsData alone: it returns
\* ErrGetEmpty or ErrGetFailed with no lock of its own, and the lock it
\* took on a file it passed over is released.
C29_GetLeaksNoLock ==
    [][\A t \in Clients :
          GetStep(t) =>
              IF pc'[t] = "ret" /\ res'[t] = "Handle"
              THEN \E h \in HandleIds :
                       /\ handles[h].st = "free"
                       /\ handles'[h].st = "open"
                       /\ handles'[h].name = First(todo[t])
                       /\ \A g \in HandleIds \ {h} : handles'[g] = handles[g]
                       /\ prod' = prod
              ELSE handles' = handles /\ prod' = prod]_vars

\* Get has returned ErrGetEmpty from a directory whose one file is
\* corrupted: it locked the file, passed it over, and no lock is held.
C29_Witness ==
    \E t \in Clients :
        /\ pc[t] = "ret" /\ res[t] = "GetEmpty"
        /\ \E n \in Names : Present = {n} /\ files[n] = Garbage
        /\ \A h \in HandleIds : handles[h].st = "free"
        /\ \A p \in Producers : ~ProdHolds(p)

\* No fsData is outstanding and no call of Store is in progress.
NothingOutstanding ==
    /\ \A h \in HandleIds : handles[h].st = "free"
    /\ \A p \in Producers : prod[p].pc \in {"idle", "ret"}

\* A call of Wait on store s would return nil: line 374 and lines 378-384.
WaitGivesOk(s) == ~WaitBlocks(s) /\ WaitResult(s) = "Ok"

\* C30: on an open store with no fsData outstanding and no Store in
\* progress, a Get that follows a Wait that returned nil does not return
\* ErrGetEmpty: Get returns ErrGetEmpty only where Wait would not return
\* nil. Stores constructed over a directory that holds files are included.
C30_OkThenHandle ==
    [][\A t \in Clients :
          (/\ pc[t] = "scan" /\ pc'[t] = "ret" /\ res'[t] = "GetEmpty"
           /\ status[wst[t]] = "up" /\ run[wst[t]]
           /\ NothingOutstanding)
          => ~WaitGivesOk(wst[t])]_vars

\* The relay loop r hands the payload of a file to Sink.Send in this step:
\* Get has returned the fsData.
HandsToSink(r) == pc[r] = "scan" /\ pc'[r] = "send"

\* Sink.Send returns to the relay loop r in this step.
SendReturns(r) == pc[r] = "send" /\ pc'[r] # "send"

\* Remove returns to the relay loop r in this step: nil (the loop is at
\* Wait) or ErrRemoveFailed (the loop is at Close).
RemoveReturns(r) == pc[r] = "remove" /\ pc'[r] # "remove"

\* C31: with one relay loop and no restart, what the loop hands to the sink
\* is a payload file that is in the directory; after a Send that succeeded
\* the loop calls Remove, which returns nil only when it has deleted that
\* file, and the loop calls Close, leaving the file for another Send, only
\* after a Send or a Remove that failed; a file that was deleted is there
\* again only when a call of Store writes it. So an item is sent a second
\* time only after a failed Send or Remove, or when it is stored again.
C31_NoSpuriousDuplicate ==
    [][LET r == Relay(1) IN
       /\ HandsToSink(r) =>
             \E h \in HandleIds :
                 /\ handles[h].st = "free"
                 /\ handles'[h].owner = r /\ handles'[h].st = "open"
                 /\ Intact(handles'[h].name)
                 /\ handles'[h].data = files[handles'[h].name]
       /\ SendReturns(r) =>
             pc'[r] = (IF sendErr'[r] THEN "close" ELSE "remove")
       /\ RemoveReturns(r) =>
             \E h \in HandleIds :
                 /\ handles[h].owner = r
                 /\ IF pc'[r] = "wait"
                    THEN handles[h].st = "rm_count" /\ handles'[h].st = "free"
                    ELSE /\ pc'[r] = "close"
                         /\ handles[h].st = "open" /\ handles'[h] = handles[h]
                         /\ files' = files
       /\ \A h \in HandleIds :
             (handles[h].st = "open" /\ handles'[h].st \notin {"open", "free"}) =>
                 /\ pc[r] = "remove" /\ handles[h].owner = r
                 /\ handles'[h].st = "rm_unlock"
                 /\ files[handles[h].name] # NoFile
                 /\ files'[handles[h].name] = NoFile
       /\ \A h \in HandleIds :
             (handles[h].st = "open" /\ handles'[h].st = "free") =>
                 pc[r] = "close"
       /\ \A n \in Names :
             (files[n] = NoFile /\ files'[n] # NoFile) => StoreWrites(n)
      ]_vars

\* The relay loop has sent an item, Send succeeded, and Remove has deleted
\* its file: nothing of it is left to send again.
C31_Witness ==
    \E h \in HandleIds :
        /\ handles[h].st = "rm_count"
        /\ handles[h].owner = Relay(1)
        /\ ~sendErr[Relay(1)]
        /\ Present = {}

====
